---- MODULE Spec2Model ----
(***************************************************************************)
(* Model of create_popup_footnotes (footnote_v2.py): the rewrite of the    *)
(* footnote references and definitions of one HTML document into EPUB3     *)
(* popup-footnote markup.                                                  *)
(*                                                                         *)
(* Strings (attribute values, text) are sequences of one-character         *)
(* strings, so that concatenation, split('#') and strip() are computed.    *)
(* The document tree is a store of node records indexed by node number;    *)
(* node 1 is the BeautifulSoup object, parent 0 is Python's None.  A node  *)
(* taken out of the tree (extract, decompose, clear) stays in the store    *)
(* with parent 0, as the Python object stays alive while it is referenced. *)
(***************************************************************************)
EXTENDS Integers, Sequences, FiniteSets, TLC

VARIABLES
    pc,               \* position in create_popup_footnotes
    html_content,     \* the argument: the input markup, as a token sequence
    input,            \* history: the tree the parser built from html_content
    soup,             \* the tree being rewritten
    need_jump,        \* global need_jump
    auto_find_footnote_tags, \* global auto_find_footnote_tags
    footrefs,         \* list of candidate reference nodes
    idx,              \* enumerate(footrefs, start=1): index of the next candidate
    processed_notes,  \* counter of rewritten pairs
    pairs,            \* history: one record per rewritten pair
    before,           \* history: the tree before the latest loop iteration
    result            \* the returned markup (token sequence), <<>> before return

vars == <<pc, html_content, input, soup, need_jump, auto_find_footnote_tags,
          footrefs, idx, processed_notes, pairs, before, result>>

\* Largest number of reference anchors in an input document.
MaxRefs == 2

-----------------------------------------------------------------------------
(* Strings *)

s_Z1 == <<"Z", "1">>
s_Z2 == <<"Z", "2">>
s_F1 == <<"F", "1">>
s_note == <<"n", "o", "t", "e">>
s_noteref == <<"n", "o", "t", "e", "r", "e", "f">>
s_footnote == <<"f", "o", "o", "t", "n", "o", "t", "e">>
s_nootref == <<"n", "o", "o", "t", "r", "e", "f">>
s_ref == <<"-", "r", "e", "f">>
s_backref == <<"-", "b", "a", "c", "k", "r", "e", "f">>
s_link == <<"-", "l", "i", "n", "k">>
s_math_super == <<"m", "a", "t", "h", "-", "s", "u", "p", "e", "r">>
s_suptext == <<"s", "u", "p", "t", "e", "x", "t">>
s_ops == <<"h", "t", "t", "p", ":", "/", "/", "w", "w", "w", ".", "i", "d", "p", "f",
          ".", "o", "r", "g", "/", "2", "0", "0", "7", "/", "o", "p", "s">>
s_glyph == <<"㊟">>
s_Some == <<"S", "o", "m", "e", " ">>
s_inline == <<"i", "n", "l", "i", "n", "e">>
s_remark == <<" ", "r", "e", "m", "a", "r", "k">>
s_def_text == <<"d", "e", "f", " ", "t", "e", "x", "t">>

Whitespace == {" ", "\n", "\t", "\r"}

Digit(d) == CASE d = 0 -> "0" [] d = 1 -> "1" [] d = 2 -> "2" [] d = 3 -> "3"
              [] d = 4 -> "4" [] d = 5 -> "5" [] d = 6 -> "6" [] d = 7 -> "7"
              [] d = 8 -> "8" [] d = 9 -> "9"

RECURSIVE str(_)
\* str(idx): the decimal digits of a natural number.
str(n) == IF n < 10 THEN <<Digit(n)>> ELSE str(n \div 10) \o <<Digit(n % 10)>>

\* note_href.split('#')[-1]
SplitLast(s) ==
    LET hashes == {i \in 1..Len(s) : s[i] = "#"}
    IN  IF hashes = {} THEN s
        ELSE LET last == CHOOSE i \in hashes : \A j \in hashes : j <= i
             IN  SubSeq(s, last + 1, Len(s))

\* str.strip()
strip(s) ==
    LET keep == {i \in 1..Len(s) : s[i] \notin Whitespace}
    IN  IF keep = {} THEN <<>>
        ELSE LET lo == CHOOSE i \in keep : \A j \in keep : i <= j
                 hi == CHOOSE i \in keep : \A j \in keep : j <= i
             IN  SubSeq(s, lo, hi)

-----------------------------------------------------------------------------
(* The document tree (the part of bs4 the function uses) *)

Tag(name, attrs, parent) ==
    [kind |-> "tag", name |-> name, attrs |-> attrs, string |-> <<>>,
     contents |-> <<>>, parent |-> parent]

NavigableString(s, parent) ==
    [kind |-> "text", name |-> "", attrs |-> <<>>, string |-> s,
     contents |-> <<>>, parent |-> parent]

\* A comment <!--s-->: bs4's Comment, a subclass of NavigableString.
Comment(s, parent) ==
    [kind |-> "comment", name |-> "", attrs |-> <<>>, string |-> s,
     contents |-> <<>>, parent |-> parent]

\* isinstance(item, NavigableString)
IsNavigableString(node) == node.kind \in {"text", "comment"}

\* Attributes are an ordered list of <<key, value>> pairs (a Python dict).
HasAttr(attrs, key) == \E i \in 1..Len(attrs) : attrs[i][1] = key

GetAttr(attrs, key) ==
    attrs[CHOOSE i \in 1..Len(attrs) : attrs[i][1] = key][2]

\* tag[key] = value: an existing key keeps its place, a new key goes last.
SetAttr(attrs, key, value) ==
    IF HasAttr(attrs, key)
    THEN [i \in 1..Len(attrs) |->
            IF attrs[i][1] = key THEN <<key, value>> ELSE attrs[i]]
    ELSE Append(attrs, <<key, value>>)

SetItem(t, n, key, value) ==
    [t EXCEPT ![n].attrs = SetAttr(@, key, value)]

RemoveAt(seq, i) == SubSeq(seq, 1, i - 1) \o SubSeq(seq, i + 1, Len(seq))

InsertAt(seq, i, x) == SubSeq(seq, 1, i - 1) \o <<x>> \o SubSeq(seq, i, Len(seq))

IndexOf(seq, x) == CHOOSE i \in 1..Len(seq) : seq[i] = x

\* element.extract(): take the element, with its subtree, out of the tree.
extract(t, n) ==
    IF t[n].parent = 0 THEN t
    ELSE LET p == t[n].parent
         IN  [t EXCEPT ![p].contents = RemoveAt(@, IndexOf(@, n)),
                       ![n].parent = 0]

\* tag.clear(): every child is extracted on its own.
clear(t, n) ==
    [m \in 1..Len(t) |->
        IF m = n THEN [t[m] EXCEPT !.contents = <<>>]
        ELSE IF t[m].parent = n THEN [t[m] EXCEPT !.parent = 0]
        ELSE t[m]]

\* tag.append(child) of a node that is in no tree.
append(t, n, child) ==
    [t EXCEPT ![n].contents = Append(@, child), ![child].parent = n]

\* tag.string = s: clear the tag, then append a new NavigableString.
SetString(t, n, s) ==
    LET t1 == clear(t, n)
        new == Len(t1) + 1
    IN  append(Append(t1, NavigableString(s, 0)), n, new)

\* soup.new_tag(name, **attrs): a tag in no tree; its number is Len + 1.
new_tag(t, name, attrs) == Append(t, Tag(name, attrs, 0))

\* ref.insert_after(n): n is extracted, then placed right after ref.
insert_after(t, ref, n) ==
    LET t1 == extract(t, n)
        p == t1[ref].parent
    IN  [t1 EXCEPT ![p].contents = InsertAt(@, IndexOf(@, ref) + 1, n),
                   ![n].parent = p]

\* ref.insert_before(n): n is extracted, then placed right before ref.
insert_before(t, ref, n) ==
    LET t1 == extract(t, n)
        p == t1[ref].parent
    IN  [t1 EXCEPT ![p].contents = InsertAt(@, IndexOf(@, ref), n),
                   ![n].parent = p]

RECURSIVE Concat(_)
Concat(seqs) == IF seqs = <<>> THEN <<>> ELSE Head(seqs) \o Concat(Tail(seqs))

RECURSIVE descendants(_, _)
\* The nodes below n, in document order.
descendants(t, n) ==
    Concat([i \in 1..Len(t[n].contents) |->
              <<t[n].contents[i]>> \o descendants(t, t[n].contents[i])])

\* The tags of the document, in document order.
AllTags(t) == LET d == descendants(t, 1)
                  IsTag(n) == t[n].kind = "tag"
              IN  SelectSeq(d, IsTag)

HasClass(t, n, cls) ==
    HasAttr(t[n].attrs, "class") /\ GetAttr(t[n].attrs, "class") = cls

\* A selector is [pname, pcls, name, cls]: "name.cls" when pname is "", and
\* "pname.pcls > name" otherwise.
Matches(t, n, sel) ==
    /\ t[n].name = sel.name
    /\ IF sel.pname = ""
       THEN HasClass(t, n, sel.cls)
       ELSE /\ t[n].parent # 0
            /\ t[t[n].parent].name = sel.pname
            /\ HasClass(t, t[n].parent, sel.pcls)

\* soup.select(selector)
select(t, sel) == LET M(n) == Matches(t, n, sel) IN SelectSeq(AllTags(t), M)

\* soup.find(id=note_id): the first tag carrying that id, 0 for None.
find(t, note_id) ==
    LET tags == AllTags(t)
        hits == {i \in 1..Len(tags) :
                    /\ HasAttr(t[tags[i]].attrs, "id")
                    /\ GetAttr(t[tags[i]].attrs, "id") = note_id}
    IN  IF hits = {} THEN 0
        ELSE tags[CHOOSE i \in hits : \A j \in hits : i <= j]

RECURSIVE find_parent(_, _, _)
\* tag.find_parent(name): the nearest ancestor of that name, 0 for None.
find_parent(t, n, name) ==
    LET p == t[n].parent
    IN  IF p = 0 THEN 0
        ELSE IF t[p].kind = "tag" /\ t[p].name = name THEN p
        ELSE find_parent(t, p, name)

\* ''.join(item for item in p.children if isinstance(item, NavigableString))
DirectText(t, p) ==
    Concat([i \in 1..Len(t[p].contents) |->
              IF IsNavigableString(t[t[p].contents[i]])
              THEN t[t[p].contents[i]].string ELSE <<>>])

RECURSIVE InTree(_, _)
\* Whether n is still below the BeautifulSoup object.
InTree(t, n) == \/ n = 1
                \/ t[n].parent # 0 /\ InTree(t, t[n].parent)

RECURSIVE decode(_, _)
\* str(soup): the markup of the subtree of n, as a token sequence.
decode(t, n) ==
    IF IsNavigableString(t[n])
    THEN <<[tok |-> t[n].kind, string |-> t[n].string]>>
    ELSE LET inner == Concat([i \in 1..Len(t[n].contents) |->
                                 decode(t, t[n].contents[i])])
         IN  IF n = 1 THEN inner
             ELSE <<[tok |-> "open", name |-> t[n].name, attrs |-> t[n].attrs]>>
                  \o inner \o <<[tok |-> "close", name |-> t[n].name]>>

-----------------------------------------------------------------------------
(* Configuration *)

Sel(name, cls) == [pname |-> "", pcls |-> <<>>, name |-> name, cls |-> cls]

ChildSel(pname, pcls, name) ==
    [pname |-> pname, pcls |-> pcls, name |-> name, cls |-> <<>>]

\* The built-in selectors; 'a.footnote-ref' is listed twice.
foot_ref_tags_selectors ==
    << Sel("a", s_footnote \o s_ref), Sel("a", s_footnote),
       Sel("a", s_footnote \o s_backref), Sel("a", s_footnote \o s_ref),
       ChildSel("span", s_math_super, "a"), Sel("a", s_footnote \o s_link),
       ChildSel("sup", s_suptext, "a") >>

\* The global selector (the default of --footnote_tags).
selector == Sel("a", s_footnote \o s_ref)

-----------------------------------------------------------------------------
(* Input documents: what BeautifulSoup(html_content, 'html.parser') builds *)

\* The parser appends a node as the last child of the open tag p.
Child(t, p, node) ==
    LET n == Len(t) + 1
    IN  [Append(t, [node EXCEPT !.parent = p]) EXCEPT ![p].contents = Append(@, n)]

ChildTag(t, p, name, attrs) == Child(t, p, Tag(name, attrs, p))

ChildText(t, p, s) == Child(t, p, NavigableString(s, p))

ChildComment(t, p, s) == Child(t, p, Comment(s, p))

\* The reference anchors of the input documents, by kind and target: Z1 and Z2
\* are identifiers of definitions, F1 is the identifier the first reference
\* carries when it is of kind fr (a back-reference points at its reference).
RefShapes ==
    { [kind |-> "fr", target |-> s_Z1], [kind |-> "fr", target |-> s_Z2],
      [kind |-> "sup", target |-> s_Z1], [kind |-> "sup", target |-> s_Z2],
      [kind |-> "bk", target |-> s_Z1], [kind |-> "bk", target |-> s_F1] }

Layouts == {"none", "example", "shared", "nested"}

\* The k-th reference anchor of the body (node 3), pointing at target:
\*  fr   <a class="footnote-ref" href="t#target" id="Fk">k</a>
\*  bk   <p class="note">N<a class="footnote-backref" href="#target">k</a></p>
\*  sup  <sup class="suptext"><a href="#target">k</a></sup>
AddRef(t, k, kind, target) ==
    CASE kind = "fr" ->
           LET t1 == ChildTag(t, 3, "a",
                        << <<"class", s_footnote \o s_ref>>,
                           <<"href", <<"t", "#">> \o target>>,
                           <<"id", <<"F">> \o str(k)>> >>)
           IN  ChildText(t1, Len(t1), str(k))
      [] kind = "bk" ->
           LET t1 == ChildTag(t, 3, "p", << <<"class", s_note>> >>)
               p  == Len(t1)
               t2 == ChildText(t1, p, <<"N">>)
               t3 == ChildTag(t2, p, "a",
                        << <<"class", s_footnote \o s_backref>>,
                           <<"href", <<"#">> \o target>> >>)
           IN  ChildText(t3, Len(t3), str(k))
      [] kind = "sup" ->
           LET t1 == ChildTag(t, 3, "sup", << <<"class", s_suptext>> >>)
               t2 == ChildTag(t1, Len(t1), "a", << <<"href", <<"#">> \o target>> >>)
           IN  ChildText(t2, Len(t2), str(k))

RECURSIVE AddRefs(_, _, _)
AddRefs(t, refs, k) ==
    IF k > Len(refs) THEN t
    ELSE AddRefs(AddRef(t, k, refs[k].kind, refs[k].target), refs, k + 1)

\* A definition <name id="id">def text</name> as the last child of p.
AddDef(t, p, name, id) ==
    LET t1 == ChildTag(t, p, name, << <<"id", id>> >>)
    IN  ChildText(t1, Len(t1), s_def_text)

\* The notes that follow the references in the body:
\*  example  <p>Some <i>inline</i> remark<a id="Z1">def text</a></p>
\*           <p class="note">N</p><div id="Z2">def text</div>
\*  shared   <p class="note">Some <!--c--><span id="Z1">def text</span>
\*           <span id="Z2">def text</span></p>
\*  nested   <p>Some <p class="note"> remark<span id="Z1">def text</span></p>
\*           <span id="Z2">def text</span></p>
AddNotes(t, layout) ==
    CASE layout = "none" -> t
      [] layout = "example" ->
           LET t1 == ChildTag(t, 3, "p", <<>>)
               p  == Len(t1)
               t2 == ChildText(t1, p, s_Some)
               t3 == ChildTag(t2, p, "i", <<>>)
               t4 == ChildText(t3, Len(t3), s_inline)
               t5 == ChildText(t4, p, s_remark)
               t6 == AddDef(t5, p, "a", s_Z1)
               t7 == ChildTag(t6, 3, "p", << <<"class", s_note>> >>)
               t8 == ChildText(t7, Len(t7), <<"N">>)
           IN  AddDef(t8, 3, "div", s_Z2)
      [] layout = "shared" ->
           LET t1 == ChildTag(t, 3, "p", << <<"class", s_note>> >>)
               p  == Len(t1)
               t2 == ChildComment(ChildText(t1, p, s_Some), p, <<"c">>)
               t3 == AddDef(t2, p, "span", s_Z1)
           IN  AddDef(t3, p, "span", s_Z2)
      [] layout = "nested" ->
           LET t1 == ChildTag(t, 3, "p", <<>>)
               p  == Len(t1)
               t2 == ChildText(t1, p, s_Some)
               t3 == ChildTag(t2, p, "p", << <<"class", s_note>> >>)
               q  == Len(t3)
               t4 == ChildText(t3, q, s_remark)
               t5 == AddDef(t4, q, "span", s_Z1)
           IN  AddDef(t5, p, "span", s_Z2)

\* <html [xmlns:epub="..."]><body> references, notes </body></html>
BeautifulSoup(ns, refs, layout) ==
    LET t0 == << Tag("[document]", <<>>, 0) >>
        t1 == ChildTag(t0, 1, "html",
                 IF ns THEN << <<"xmlns:epub", s_ops>> >> ELSE <<>>)
        t2 == ChildTag(t1, 2, "body", <<>>)
    IN  AddNotes(AddRefs(t2, refs, 1), layout)

RefLists ==
    UNION {[1..n -> RefShapes] : n \in 0..MaxRefs}

Init ==
    \E ns \in BOOLEAN, refs \in RefLists, layout \in Layouts,
       jump \in BOOLEAN, auto \in BOOLEAN :
        /\ input = BeautifulSoup(ns, refs, layout)
        /\ soup = input
        /\ html_content = decode(input, 1)
        /\ need_jump = jump
        /\ auto_find_footnote_tags = auto
        /\ pc = "namespace"
        /\ footrefs = <<>>
        /\ idx = 0
        /\ processed_notes = 0
        /\ pairs = <<>>
        /\ before = <<>>
        /\ result = <<>>

-----------------------------------------------------------------------------
(* create_popup_footnotes, step by step *)

\* soup.html: the first tag named html.
html(t) == LET tags == AllTags(t)
           IN  tags[CHOOSE i \in 1..Len(tags) :
                       /\ t[tags[i]].name = "html"
                       /\ \A j \in 1..(i - 1) : t[tags[j]].name # "html"]

\* Lines 59-60: add the epub namespace to the parsed tree if it is absent.
AddNamespace ==
    /\ pc = "namespace"
    /\ soup' = IF HasAttr(soup[html(soup)].attrs, "xmlns:epub") THEN soup
               ELSE SetItem(soup, html(soup), "xmlns:epub", s_ops)
    /\ pc' = "locate"
    /\ UNCHANGED <<html_content, input, need_jump, auto_find_footnote_tags,
                   footrefs, idx, processed_notes, pairs, before, result>>

\* Lines 64-65: footrefs += soup.select(selector), for every built-in selector.
AutoFootrefs(t) ==
    Concat([i \in 1..Len(foot_ref_tags_selectors) |->
              select(t, foot_ref_tags_selectors[i])])

LocateAuto ==
    /\ pc = "locate"
    /\ auto_find_footnote_tags
    /\ footrefs' = AutoFootrefs(soup)
    /\ pc' = "found"
    /\ UNCHANGED <<html_content, input, soup, need_jump, auto_find_footnote_tags,
                   idx, processed_notes, pairs, before, result>>

\* Lines 66-68: the for statement of line 64 makes selector a local name of
\* the function, which nothing has bound when the else branch reads it; the
\* read raises UnboundLocalError and the function is left.
LocateManual ==
    /\ pc = "locate"
    /\ ~auto_find_footnote_tags
    /\ pc' = "UnboundLocalError"
    /\ UNCHANGED <<html_content, input, soup, need_jump, auto_find_footnote_tags,
                   footrefs, idx, processed_notes, pairs, before, result>>

\* NoFootnotes returning str(soup) in place of the argument.
NoFootnotesStr ==
    /\ pc = "found"
    /\ footrefs = <<>>
    /\ result' = decode(soup, 1)
    /\ pc' = "returned"
    /\ UNCHANGED <<html_content, input, soup, need_jump, auto_find_footnote_tags,
                   footrefs, idx, processed_notes, pairs, before>>

\* Lines 69-71: no candidate; the argument is returned as it came.
NoFootnotes ==
    /\ pc = "found"
    /\ footrefs = <<>>
    /\ result' = html_content
    /\ pc' = "returned"
    /\ UNCHANGED <<html_content, input, soup, need_jump, auto_find_footnote_tags,
                   footrefs, idx, processed_notes, pairs, before>>

\* Lines 72-79: candidates found; the loop starts at index 1.
FoundFootnotes ==
    /\ pc = "found"
    /\ footrefs # <<>>
    /\ processed_notes' = 0
    /\ idx' = 1
    /\ pc' = "loop"
    /\ UNCHANGED <<html_content, input, soup, need_jump, auto_find_footnote_tags,
                   footrefs, pairs, before, result>>

\* Line 81: noteref['id'] = 'nootref' + str(idx)
AssignId(t, noteref, i) == SetItem(t, noteref, "id", s_nootref \o str(i))

\* Lines 80, 82: the fragment the reference points at.
NoteId(t, noteref) == SplitLast(GetAttr(t[noteref].attrs, "href"))

\* Lines 80-83: the definition found for candidate i, 0 for None.
Resolve(t, noteref, i) == find(AssignId(t, noteref, i), NoteId(t, noteref))

\* Lines 86-89: mark the reference and the definition.
MarkPair(t, noteref, note_text) ==
    LET t1 == SetItem(t, noteref, "epub:type", s_noteref)
        t2 == SetString(t1, noteref, s_glyph)
        t3 == [t2 EXCEPT ![note_text].name = "aside"]
    IN  SetItem(t3, note_text, "epub:type", s_footnote)

RECURSIVE get_text(_, _)
\* All the text below n, nested text included.
get_text(t, n) ==
    IF t[n].kind = "text" THEN t[n].string
    ELSE IF t[n].kind = "comment" THEN <<>>
    ELSE Concat([i \in 1..Len(t[n].contents) |-> get_text(t, t[n].contents[i])])

\* ReplaceParagraph taking all the text of the paragraph, nested text included.
ReplaceParagraphAllText(t, note_text) ==
    LET parent_p == find_parent(t, note_text, "p")
    IN  IF parent_p = 0 THEN t
        ELSE LET direct_text == strip(get_text(t, parent_p))
                 t1 == SetString(t, note_text, direct_text)
                 t2 == insert_after(t1, parent_p, note_text)
             IN  extract(t2, parent_p)

\* Lines 92-100: the definition takes the text and the place of its paragraph.
ReplaceParagraph(t, note_text) ==
    LET parent_p == find_parent(t, note_text, "p")
    IN  IF parent_p = 0 THEN t
        ELSE LET direct_text == strip(DirectText(t, parent_p))
                 t1 == SetString(t, note_text, direct_text)
                 t2 == insert_after(t1, parent_p, note_text)
             IN  extract(t2, parent_p)

\* '[%d]' % (idx)
Label(i) == <<"[">> \o str(i) \o <<"]">>

\* JumpBack placing the link inside the definition, as its first child.
JumpBackFirstChild(t, noteref, note_text, i) ==
    LET t1 == new_tag(t, "a",
                 << <<"href", <<"#">> \o GetAttr(t[noteref].attrs, "id")>> >>)
        tag == Len(t1)
        t2 == SetString(t1, tag, Label(i))
    IN  [t2 EXCEPT ![note_text].contents = <<tag>> \o @, ![tag].parent = note_text]

\* Lines 103-106: the link back to the reference.
JumpBack(t, noteref, note_text, i) ==
    LET t1 == new_tag(t, "a",
                 << <<"href", <<"#">> \o GetAttr(t[noteref].attrs, "id")>> >>)
        tag == Len(t1)
        t2 == SetString(t1, tag, Label(i))
    IN  insert_before(t2, note_text, tag)

NextCandidate ==
    /\ before' = soup
    /\ idx' = idx + 1
    /\ pc' = IF idx + 1 > Len(footrefs) THEN "sweep" ELSE "loop"

\* Lines 79-85: a candidate whose target is not found is passed over.
SkipCandidate ==
    /\ pc = "loop"
    /\ LET noteref == footrefs[idx]
       IN  /\ Resolve(soup, noteref, idx) = 0
           /\ soup' = AssignId(soup, noteref, idx)
    /\ NextCandidate
    /\ UNCHANGED <<html_content, input, need_jump, auto_find_footnote_tags,
                   footrefs, processed_notes, pairs, result>>

\* Lines 79-109: a candidate whose target is found is rewritten.
RewriteCandidate ==
    /\ pc = "loop"
    /\ LET noteref == footrefs[idx]
           note_text == Resolve(soup, noteref, idx)
           t1 == AssignId(soup, noteref, idx)
           t2 == MarkPair(t1, noteref, note_text)
           t3 == ReplaceParagraph(t2, note_text)
       IN  /\ note_text # 0
           /\ soup' = IF need_jump THEN JumpBack(t3, noteref, note_text, idx)
                      ELSE t3
           /\ pairs' = Append(pairs, [idx |-> idx, noteref |-> noteref,
                                      note_text |-> note_text,
                                      link |-> IF need_jump THEN Len(t3) + 1 ELSE 0])
    /\ processed_notes' = processed_notes + 1
    /\ NextCandidate
    /\ UNCHANGED <<html_content, input, need_jump, auto_find_footnote_tags,
                   footrefs, result>>

\* soup.find_all('p', class_='note')
NoteParagraphs(t) ==
    LET IsNote(n) == t[n].name = "p" /\ HasClass(t, n, s_note)
    IN  SelectSeq(AllTags(t), IsNote)

\* DecomposeAll stopping after the first note.
DecomposeFirst(t, notes) ==
    IF notes = <<>> THEN t ELSE extract(t, Head(notes))

RECURSIVE DecomposeAll(_, _)
\* note.decompose() for every note of the list.
DecomposeAll(t, notes) ==
    IF notes = <<>> THEN t
    ELSE DecomposeAll(extract(t, Head(notes)), Tail(notes))

\* Lines 111-113: remove the paragraphs of class note.
Sweep ==
    /\ pc = "sweep"
    /\ soup' = DecomposeAll(soup, NoteParagraphs(soup))
    /\ pc' = "return"
    /\ UNCHANGED <<html_content, input, need_jump, auto_find_footnote_tags,
                   footrefs, idx, processed_notes, pairs, before, result>>

\* Lines 116-118: return str(soup).
Return ==
    /\ pc = "return"
    /\ result' = decode(soup, 1)
    /\ pc' = "returned"
    /\ UNCHANGED <<html_content, input, soup, need_jump, auto_find_footnote_tags,
                   footrefs, idx, processed_notes, pairs, before>>

Next ==
    \/ AddNamespace
    \/ LocateAuto
    \/ LocateManual
    \/ NoFootnotes
    \/ FoundFootnotes
    \/ SkipCandidate
    \/ RewriteCandidate
    \/ Sweep
    \/ Return

Spec == Init /\ [][Next]_vars

-----------------------------------------------------------------------------
(* Vocabulary of the properties *)

Range(seq) == {seq[i] : i \in 1..Len(seq)}

\* Whether the fragment of candidate k names a node of the input document.
ResolvesInInput(k) == find(input, NoteId(input, footrefs[k])) # 0

\* The identifiers carried by the tags of the document.
IdsOf(t) == {GetAttr(t[n].attrs, "id") : n \in {m \in Range(AllTags(t)) :
                                                  HasAttr(t[m].attrs, "id")}}

\* The tags made by soup.new_tag: the back-links.
BackLinks(t) == {n \in (Len(input) + 1)..Len(t) : t[n].kind = "tag"}

-----------------------------------------------------------------------------
(* Properties *)

\* C1: a candidate whose fragment names no node of the input document is
\* unmodified in the returned document: its attributes (its id included) and
\* its text are those of the input.
C1_UnresolvedUntouched ==
    pc = "returned" =>
        \A k \in 1..Len(footrefs) :
            ~ResolvesInInput(k) =>
                /\ soup[footrefs[k]].attrs = input[footrefs[k]].attrs
                /\ soup[footrefs[k]].contents = input[footrefs[k]].contents
                /\ \A c \in Range(input[footrefs[k]].contents) : soup[c] = input[c]

\* C3: in every loop iteration the lookup of the candidate's fragment finds a
\* node exactly when the input document holds a node with that identifier.
C3_ResolutionAsInInput ==
    pc = "loop" =>
        ((Resolve(soup, footrefs[idx], idx) # 0) <=> ResolvesInInput(idx))

\* C4: in manual mode the candidates are exactly the nodes matching the one
\* configured selector, in document order, and processing goes on with them.
C4_ManualAppliesSelector ==
    (~auto_find_footnote_tags /\ pc \notin {"namespace", "locate"}) =>
        /\ pc # "UnboundLocalError"
        /\ footrefs = select(soup, selector)

\* C6: the candidates are numbered 1..K in locator order and, in the returned
\* document, the identifier of every rewritten candidate occurrence is
\* 'nootref' followed by that occurrence's own index.
C6_OwnIndex ==
    pc = "returned" =>
        /\ \A i \in 1..Len(pairs) :
              /\ pairs[i].idx \in 1..Len(footrefs)
              /\ pairs[i].noteref = footrefs[pairs[i].idx]
              /\ \A j \in 1..(i - 1) : pairs[j].idx < pairs[i].idx
        /\ \A i \in 1..Len(pairs) :
              GetAttr(soup[pairs[i].noteref].attrs, "id")
                  = s_nootref \o str(pairs[i].idx)

\* C9: with need_jump enabled, the fragment of every back-link of the returned
\* document is an identifier that a node of the returned document carries.
C9_BackLinksResolve ==
    (pc = "returned" /\ need_jump) =>
        \A n \in BackLinks(soup) :
            InTree(soup, n) =>
                SplitLast(GetAttr(soup[n].attrs, "href")) \in IdsOf(soup)

\* C10: every rewritten reference and every rewritten definition is still in
\* the tree of the returned document.
C10_RewrittenRemain ==
    pc = "returned" =>
        \A i \in 1..Len(pairs) :
            /\ InTree(soup, pairs[i].noteref)
            /\ InTree(soup, pairs[i].note_text)

Last(seq) == seq[Len(seq)]

\* The sibling right before n, 0 when there is none.
PrevSibling(t, n) ==
    LET p == t[n].parent
    IN  IF p = 0 THEN 0
        ELSE LET i == IndexOf(t[p].contents, n)
             IN  IF i = 1 THEN 0 ELSE t[p].contents[i - 1]

\* n is <a href="#nootref<i>">[<i>]</a>.
IsBackLink(t, n, i) ==
    /\ n # 0
    /\ t[n].kind = "tag"
    /\ t[n].name = "a"
    /\ t[n].attrs = << <<"href", <<"#">> \o s_nootref \o str(i)>> >>
    /\ Len(t[n].contents) = 1
    /\ t[t[n].contents[1]].kind = "text"
    /\ t[t[n].contents[1]].string = <<"[">> \o str(i) \o <<"]">>

\* The index of the latest rewrite of definition d.
LastRewrite(d) ==
    LET is == {i \in 1..Len(pairs) : pairs[i].note_text = d}
    IN  pairs[CHOOSE i \in is : \A j \in is : j <= i].idx

\* C2 as stated: without need_jump no back-link is inserted; with it, after
\* processing, the first child of every rewritten definition is the link
\* <a href="#nootref<index>">[<index>]</a> of its reference.
C2_JumpBackFirstChild ==
    pc = "returned" =>
        IF need_jump
        THEN \A i \in 1..Len(pairs) :
                LET d == pairs[i].note_text
                IN  /\ soup[d].contents # <<>>
                    /\ IsBackLink(soup, Head(soup[d].contents), LastRewrite(d))
        ELSE BackLinks(soup) = {}

\* C2, amended: without need_jump no back-link is made; with it, the link of
\* a rewrite stands right before the definition, as its preceding sibling and
\* not as a child of it, with href '#nootref<index>' and text '[<index>]', the
\* index being that of the latest rewrite of the definition.
C2_JumpBackPrecedes ==
    IF need_jump
    THEN \A i \in 1..Len(pairs) :
            LET d == pairs[i].note_text
            IN  /\ IsBackLink(soup, PrevSibling(soup, d), LastRewrite(d))
                /\ IsBackLink(soup, pairs[i].link, pairs[i].idx)
                /\ \A c \in Range(soup[d].contents) : c \notin BackLinks(soup)
    ELSE BackLinks(soup) = {} /\ \A i \in 1..Len(pairs) : pairs[i].link = 0

\* C2 witness: a returned document with need_jump in which one definition was
\* rewritten twice and stands in the tree behind its link.
C2_Witness ==
    /\ pc = "returned"
    /\ need_jump
    /\ \E i, j \in 1..Len(pairs) :
          /\ i < j
          /\ pairs[i].note_text = pairs[j].note_text
          /\ InTree(soup, pairs[j].note_text)
          /\ PrevSibling(soup, pairs[j].note_text) = pairs[j].link

s_Some_remark == <<"S", "o", "m", "e", " ", "r", "e", "m", "a", "r", "k">>

s_Some__remark == <<"S", "o", "m", "e", " ", " ", "r", "e", "m", "a", "r", "k">>

\* x is s without its leading and trailing whitespace.
IsTrimOf(x, s) ==
    IF \A i \in 1..Len(s) : s[i] \in Whitespace THEN x = <<>>
    ELSE \E lo, hi \in 1..Len(s) :
            /\ lo <= hi
            /\ s[lo] \notin Whitespace
            /\ s[hi] \notin Whitespace
            /\ \A i \in 1..Len(s) : (i < lo \/ i > hi) => s[i] \in Whitespace
            /\ x = SubSeq(s, lo, hi)

\* The children of n that are of one of the kinds, joined.
JoinedChildText(t, n, kinds) ==
    LET texts == {i \in 1..Len(t[n].contents) : t[t[n].contents[i]].kind \in kinds}
        F[k \in 0..Len(t[n].contents)] ==
            IF k = 0 THEN <<>>
            ELSE IF k \in texts THEN F[k - 1] \o t[t[n].contents[k]].string
            ELSE F[k - 1]
    IN  F[Len(t[n].contents)]

\* p is <p>Some <i>inline</i> remark<a id="Z1">def text</a></p>, d its last child.
IsExampleParagraph(t, p, d) ==
    /\ t[p].name = "p"
    /\ Len(t[p].contents) = 4
    /\ t[t[p].contents[1]].kind = "text" /\ t[t[p].contents[1]].string = s_Some
    /\ t[t[p].contents[2]].name = "i"
    /\ get_text(t, t[p].contents[2]) = s_inline
    /\ t[t[p].contents[3]].kind = "text" /\ t[t[p].contents[3]].string = s_remark
    /\ t[p].contents[4] = d

\* A rewrite has just been made: the latest pair is that of the latest iteration.
JustRewritten ==
    /\ pc \in {"loop", "sweep"}
    /\ pairs # <<>>
    /\ Last(pairs).idx = idx - 1

\* seq with its element x replaced by the elements of by.
Replaced(seq, x, by) ==
    SubSeq(seq, 1, IndexOf(seq, x) - 1) \o by
        \o SubSeq(seq, IndexOf(seq, x) + 1, Len(seq))

\* The content substitution of the latest rewrite, the content to expect for
\* the example paragraph and the kinds of child that count as text being
\* given: with a paragraph ancestor p, the definition holds one text node, the
\* trimmed joined child text of p, it stands (behind its back-link, if any)
\* where p stood, and p is out of the tree; without one, its content and its
\* place are as before.
ContentSubstituted(example, kinds) ==
    JustRewritten =>
        LET d == Last(pairs).note_text
            link == IF need_jump THEN <<Last(pairs).link>> ELSE <<>>
            p == find_parent(before, d, "p")
        IN  IF p # 0
            THEN /\ Len(soup[d].contents) = 1
                 /\ soup[soup[d].contents[1]].kind = "text"
                 /\ IsTrimOf(soup[soup[d].contents[1]].string,
                             JoinedChildText(before, p, kinds))
                 /\ IsExampleParagraph(before, p, d) =>
                        soup[soup[d].contents[1]].string = example
                 /\ soup[d].parent = before[p].parent
                 /\ soup[before[p].parent].contents
                        = Replaced(before[before[p].parent].contents, p,
                                   link \o <<d>>)
                 /\ ~InTree(soup, p)
            ELSE /\ soup[d].contents = before[d].contents
                 /\ \A c \in Range(before[d].contents) : soup[c] = before[c]
                 /\ soup[d].parent = before[d].parent
                 /\ soup[before[d].parent].contents
                        = Replaced(before[before[d].parent].contents, d,
                                   link \o <<d>>)

\* C5 as stated: the content substitution, the text nodes alone making the
\* content and the example paragraph giving the definition the content
\* 'Some remark'.
C5_ContentSomeRemark == ContentSubstituted(s_Some_remark, {"text"})

\* C5, amended: the content substitution, the text and comment nodes making
\* the content and the example paragraph giving the definition the content
\* 'Some  remark' (the two text nodes 'Some ' and ' remark' joined as they
\* are, two spaces between the words); a paragraph taken out by a rewrite is
\* in the tree of no later state.
C5_ContentSubstituted ==
    /\ ContentSubstituted(s_Some__remark, {"text", "comment"})
    /\ \A n \in 1..Len(input) :
          (before # <<>> /\ input[n].name = "p" /\ ~InTree(before, n))
              => ~InTree(soup, n)

\* C5 witness: the example paragraph has just been replaced by its definition.
C5_Witness ==
    /\ JustRewritten
    /\ find_parent(before, Last(pairs).note_text, "p") # 0
    /\ IsExampleParagraph(before,
                          find_parent(before, Last(pairs).note_text, "p"),
                          Last(pairs).note_text)
    /\ InTree(soup, Last(pairs).note_text)

\* The markup holds no <p class="note"> start tag.
NoNoteParagraph(markup) ==
    \A i \in 1..Len(markup) :
        ~ /\ markup[i].tok = "open"
          /\ markup[i].name = "p"
          /\ HasAttr(markup[i].attrs, "class")
          /\ GetAttr(markup[i].attrs, "class") = s_note

\* C7 as stated: for every document, the markup returned holds no paragraph
\* of class note.
C7_NoNoteParagraphReturned ==
    pc = "returned" => NoNoteParagraph(result)

\* C7, amended: for every document in which a candidate was found, the sweep
\* runs after the last candidate and the markup returned holds no paragraph
\* of class note.
C7_NoNoteParagraphWhenFound ==
    /\ pc = "sweep" => idx = Len(footrefs) + 1
    /\ (pc = "returned" /\ footrefs # <<>>) => NoNoteParagraph(result)

\* C7 witness: a document returned after a rewrite, whose input held two
\* paragraphs of class note or more.
C7_Witness ==
    /\ pc = "returned"
    /\ pairs # <<>>
    /\ Len(NoteParagraphs(input)) >= 2
    /\ ~NoNoteParagraph(html_content)

\* The tree with the epub namespace declared on its html tag.
WithNamespace(t) ==
    IF HasAttr(t[html(t)].attrs, "xmlns:epub") THEN t
    ELSE SetItem(t, html(t), "xmlns:epub", s_ops)

\* C8 as stated: with no candidate the function returns, and returns the
\* input markup with the namespace declaration added to it and no other change.
C8_PassThroughWithNamespace ==
    (auto_find_footnote_tags /\ footrefs = <<>> /\ pc \notin {"namespace", "locate"}) =>
        /\ pc \in {"found", "returned"}
        /\ pc = "returned" => result = decode(WithNamespace(input), 1)

\* C8, amended: with no candidate the function returns, and returns the input
\* markup as it came, the namespace declaration not added to it; no identifier
\* is assigned and no node is rewritten, moved or removed.
C8_PassThroughUnchanged ==
    (auto_find_footnote_tags /\ footrefs = <<>> /\ pc \notin {"namespace", "locate"}) =>
        /\ pc \in {"found", "returned"}
        /\ pc = "returned" => result = decode(input, 1)
        /\ soup = WithNamespace(input)
        /\ pairs = <<>>

\* C8 witness: a document with notes and no candidate, whose html tag declares
\* no epub namespace, has been returned.
C8_Witness ==
    /\ pc = "returned"
    /\ footrefs = <<>>
    /\ ~HasAttr(input[html(input)].attrs, "xmlns:epub")
    /\ Len(input) > 3

====
